---- MODULE Spec2Model ----
(***************************************************************************)
(* A model of constructor/briefcase.py and constructor/template_file.py:   *)
(* the identifier normaliser, the install-options assembler, the payload   *)
(* layout manager, the template renderer and the build driver.             *)
(*                                                                         *)
(* Python strings that the code inspects character by character are        *)
(* sequences of one-character strings (<<"1", ".", "2">> is "1.2"); the    *)
(* characters U+0130 and U+0307 are written "U+0130" and "U+0307".         *)
(* Paths are sequences of path components; the filesystem is a function    *)
(* from the existing paths to nodes.                                       *)
(***************************************************************************)
EXTENDS Integers, Sequences, FiniteSets, TLC

VARIABLES
    info,       \* the ProductInfo mapping (or the arguments) of the call
    fs,         \* the filesystem: existing path -> node
    fs0,        \* the filesystem when the run began (never changes)
    payload,    \* the Payload instance: root, rendered_templates
    pc,         \* the position of the running operation
    ret,        \* what the last operation returned or raised
    env         \* what the environment will do: platform, tool outcome, I/O

vars == <<info, fs, fs0, payload, pc, ret, env>>

(***************************************************************************)
(* Values                                                                  *)
(***************************************************************************)
None == [none |-> TRUE]

Ok(v) == [exc |-> "none", val |-> v]

Raise(e) == [exc |-> e]

Get(m, k, default) == IF k \in DOMAIN m THEN m[k] ELSE default

(***************************************************************************)
(* str methods                                                             *)
(***************************************************************************)
IsDigit(c) == c \in {"0", "1", "2", "3", "4", "5", "6", "7", "8", "9"}

IsLowerAlnum(c) ==
    \/ IsDigit(c)
    \/ c \in {"a", "b", "c", "d", "e", "f", "g", "h", "i", "j", "k", "l", "m",
              "n", "o", "p", "q", "r", "s", "t", "u", "v", "w", "x", "y", "z"}

UpperToLower ==
    [A |-> "a", B |-> "b", C |-> "c", D |-> "d", E |-> "e", F |-> "f", G |-> "g",
     H |-> "h", I |-> "i", J |-> "j", K |-> "k", L |-> "l", M |-> "m", N |-> "n",
     O |-> "o", P |-> "p", Q |-> "q", R |-> "r", S |-> "s", T |-> "t", U |-> "u",
     V |-> "v", W |-> "w", X |-> "x", Y |-> "y", Z |-> "z"]

\* str.lower() of one character: a sequence, because U+0130 (capital I with dot
\* above) lowers to the two characters "i", U+0307.
LowerChar(c) ==
    IF c \in DOMAIN UpperToLower THEN <<UpperToLower[c]>>
    ELSE IF c = "U+0130" THEN <<"i", "U+0307">>
    ELSE <<c>>

RECURSIVE Lower(_)
Lower(s) == IF s = <<>> THEN <<>> ELSE LowerChar(Head(s)) \o Lower(Tail(s))

\* str.replace(a, b) for one-character a and b
Replace(s, a, b) == [i \in 1..Len(s) |-> IF s[i] = a THEN b ELSE s[i]]

RECURSIVE LStrip(_, _)
LStrip(s, chars) ==
    IF s # <<>> /\ Head(s) \in chars THEN LStrip(Tail(s), chars) ELSE s

RECURSIVE RStrip(_, _)
RStrip(s, chars) ==
    IF s # <<>> /\ s[Len(s)] \in chars THEN RStrip(SubSeq(s, 1, Len(s) - 1), chars)
    ELSE s

Strip(s, chars) == RStrip(LStrip(s, chars), chars)

\* s[a:b] with 0 <= a, clipped to the string as Python clips a slice
Slice(s, a, b) ==
    LET hi == IF b > Len(s) THEN Len(s) ELSE b
    IN  IF a >= hi THEN <<>> ELSE SubSeq(s, a + 1, hi)

\* the character at offset k (0-based), or "" past the end
At(s, k) == IF k < Len(s) THEN s[k + 1] ELSE ""

\* " ".join(parts) for the non-empty parts
RECURSIVE JoinNonEmpty(_)
JoinNonEmpty(parts) ==
    IF parts = <<>> THEN <<>>
    ELSE LET rest == JoinNonEmpty(Tail(parts))
         IN  IF Head(parts) = <<>> THEN rest
             ELSE IF rest = <<>> THEN Head(parts)
             ELSE Head(parts) \o <<" ">> \o rest

(***************************************************************************)
(* The version pattern of get_name_version,                                *)
(*   (\d+!)?\d+(\.\d+)*((a|b|rc)\d+)?(\.post\d+)?(\.dev\d+)?               *)
(* matched as re matches it: greedy, leftmost, non-overlapping.            *)
(***************************************************************************)
\* the offset after the longest run of digits that starts at offset i
RECURSIVE DigitsEnd(_, _)
DigitsEnd(s, i) == IF IsDigit(At(s, i)) THEN DigitsEnd(s, i + 1) ELSE i

\* whether the characters of lit are at offset i
HasLit(s, i, lit) == Slice(s, i, i + Len(lit)) = lit

\* lit followed by at least one digit at offset i: the offset after the digits,
\* or i when the optional group does not match
OptGroup(s, i, lit) ==
    IF HasLit(s, i, lit) /\ IsDigit(At(s, i + Len(lit)))
    THEN DigitsEnd(s, i + Len(lit))
    ELSE i

\* (\.\d+)*
RECURSIVE DotNums(_, _)
DotNums(s, i) ==
    IF OptGroup(s, i, <<".">>) > i THEN DotNums(s, OptGroup(s, i, <<".">>)) ELSE i

\* ((a|b|rc)\d+)?
PreRelease(s, i) ==
    IF OptGroup(s, i, <<"a">>) > i THEN OptGroup(s, i, <<"a">>)
    ELSE IF OptGroup(s, i, <<"b">>) > i THEN OptGroup(s, i, <<"b">>)
    ELSE OptGroup(s, i, <<"r", "c">>)

\* the end offset of the match that starts at offset i, or -1 when none does
MatchAt(s, i) ==
    LET d1 == DigitsEnd(s, i)
        release == IF d1 > i /\ OptGroup(s, d1, <<"!">>) > d1
                   THEN OptGroup(s, d1, <<"!">>)
                   ELSE d1
        nums == DotNums(s, release)
        pre == PreRelease(s, nums)
        post == OptGroup(s, pre, <<".", "p", "o", "s", "t">>)
        dev == OptGroup(s, post, <<".", "d", "e", "v">>)
    IN  IF d1 = i THEN -1 ELSE dev

\* list(re.finditer(...)): the spans <<start, end>> of the matches, in order
RECURSIVE FindIter(_, _)
FindIter(s, pos) ==
    IF pos >= Len(s) THEN <<>>
    ELSE IF MatchAt(s, pos) = -1 THEN FindIter(s, pos + 1)
    ELSE <<(<<pos, MatchAt(s, pos)>>)>> \o FindIter(s, MatchAt(s, pos))

(***************************************************************************)
(* Identifier normaliser                                                   *)
(***************************************************************************)
DEFAULT_VERSION == <<"0", ".", "0", ".", "1">>

DEFAULT_REVERSE_DOMAIN_ID == <<"d", "e", "f", "a", "u", "l", "t">>

STRIP_CHARS == {" ", ".", "-", "_"}

\* the match get_name_version picks among the matches: matches[-1]
PickMatch(matches) == matches[Len(matches)]

get_name_version(i) ==
    LET name == Get(i, "name", <<>>)
        version == Get(i, "version", <<>>)
        canon == Replace(Lower(version), "-", ".")
        matches == FindIter(canon, 0)
        match == PickMatch(matches)
        before == Strip(Slice(version, 0, match[1]), STRIP_CHARS)
        after == Strip(Slice(version, match[2], Len(version)), STRIP_CHARS)
    IN  IF name = <<>> THEN Raise("ValueError")
        ELSE IF version = <<>> THEN Raise("ValueError")
        ELSE IF matches = <<>>
        THEN Ok([name |-> name \o <<" ">> \o version, version |-> DEFAULT_VERSION,
                 warned |-> TRUE])
        ELSE Ok([name |-> JoinNonEmpty(<<name, before, after>>),
                 version |-> Slice(canon, match[1], match[2]),
                 warned |-> FALSE])

\* re.sub(r"[^a-z0-9]+", "-", s): every run of other characters becomes one "-"
RECURSIVE SubNonAlnum(_)
SubNonAlnum(s) ==
    IF s = <<>> THEN <<>>
    ELSE IF IsLowerAlnum(Head(s)) THEN <<Head(s)>> \o SubNonAlnum(Tail(s))
    ELSE IF Len(s) > 1 /\ ~IsLowerAlnum(s[2]) THEN SubNonAlnum(Tail(s))
    ELSE <<"-">> \o SubNonAlnum(Tail(s))

make_app_name(name) ==
    LET app_name == Strip(SubNonAlnum(Lower(name)), {"-"})
    IN  IF app_name = <<>> THEN Raise("ValueError") ELSE Ok(app_name)

\* [A-Z0-9] under re.IGNORECASE, which also accepts U+0130
IsAlnumIgnoreCase(c) ==
    IsLowerAlnum(c) \/ c \in DOMAIN UpperToLower \/ c = "U+0130"

\* re.fullmatch(r"[A-Z0-9]|[A-Z0-9][A-Z0-9._-]*[A-Z0-9]", s, flags=re.IGNORECASE)
IsPackageName(s) ==
    /\ s # <<>>
    /\ IsAlnumIgnoreCase(s[1])
    /\ IsAlnumIgnoreCase(s[Len(s)])
    /\ \A k \in 1..Len(s) : IsAlnumIgnoreCase(s[k]) \/ s[k] \in {".", "_", "-"}

\* the offset of the last "." of s, or -1
RECURSIVE LastDot(_)
LastDot(s) ==
    IF s = <<>> THEN -1
    ELSE IF s[Len(s)] = "." THEN Len(s) - 1
    ELSE LastDot(SubSeq(s, 1, Len(s) - 1))

\* mutant: any non-empty last component is kept as it is
KeepsComponent_AnyNonEmpty(app_name) == app_name # <<>>

\* whether the last component of a reverse_domain_identifier is kept as it is
KeepsComponent(app_name) == IsPackageName(app_name)

get_bundle_app_name(i, name) ==
    IF "reverse_domain_identifier" \in DOMAIN i
    THEN LET rdi == i["reverse_domain_identifier"]
             dot == LastDot(rdi)
             bundle == Slice(rdi, 0, dot)
             last == Slice(rdi, dot + 1, Len(rdi))
         IN  IF dot = -1 THEN Raise("ValueError")
             ELSE IF KeepsComponent(last)
             THEN Ok([bundle |-> bundle, app_name |-> last])
             ELSE IF make_app_name(last).exc # "none" THEN Raise("ValueError")
             ELSE Ok([bundle |-> bundle, app_name |-> make_app_name(last).val])
    ELSE IF make_app_name(name).exc # "none" THEN Raise("ValueError")
    ELSE Ok([bundle |-> DEFAULT_REVERSE_DOMAIN_ID,
             app_name |-> make_app_name(name).val])

(***************************************************************************)
(* The filesystem                                                          *)
(***************************************************************************)
Dir == [kind |-> "dir"]

File(data) == [kind |-> "file", data |-> data]

\* a file holding the text t
Text(t) == File([text |-> t])

Exists(f, p) == p \in DOMAIN f

IsDir(f, p) == p \in DOMAIN f /\ f[p].kind = "dir"

IsFile(f, p) == p \in DOMAIN f /\ f[p].kind = "file"

IsPrefix(p, q) == Len(p) <= Len(q) /\ SubSeq(q, 1, Len(p)) = p

Parent(p) == SubSeq(p, 1, Len(p) - 1)

\* Path.name
BaseName(p) == p[Len(p)]

\* the filesystem with node n at path p
Put(f, p, n) == [q \in DOMAIN f \cup {p} |-> IF q = p THEN n ELSE f[q]]

\* the filesystem without path p and everything below it (shutil.rmtree, unlink)
Without(f, p) == [q \in {r \in DOMAIN f : ~IsPrefix(p, r)} |-> f[q]]

\* Path.suffix.lower() of the file names the model uses
SuffixLower(name) ==
    CASE name \in {"pre.bat", "post.bat", "hook.BAT", "dir.bat", "missing.bat"} -> ".bat"
      [] name \in {"hook.sh"} -> ".sh"
      [] OTHER -> ""

is_bat_file(f, file_path) ==
    IsFile(f, file_path) /\ SuffixLower(BaseName(file_path)) = ".bat"

(***************************************************************************)
(* Install-options assembler                                               *)
(***************************************************************************)
\* item.split("-") of the distribution ids the model uses; the second
\* component is given already split on "."
SplitDist(item) ==
    CASE item = "python-3.9.1-0" -> <<"python", <<"3", "9", "1">>, "0">>
      [] item = "python-dateutil-2.8-0" -> <<"python", <<"dateutil">>, "2.8", "0">>
      [] item = "pythonnet-3.0-0" -> <<"pythonnet", <<"3", "0">>, "0">>
      [] item = "numpy-1.0-0" -> <<"numpy", <<"1", "0">>, "0">>

\* item.startswith("python-")
StartsWithPython(item) == SplitDist(item)[1] = "python"

\* the first item of _dists that starts with "python-", as a set (empty: none)
FirstPython(dists) ==
    {k \in 1..Len(dists) :
        /\ StartsWithPython(dists[k])
        /\ \A j \in 1..(k - 1) : ~StartsWithPython(dists[j])}

\* ".".join(components[1].split(".")[:-1]), kept as the list of parts
PythonVersion(item) ==
    LET parts == SplitDist(item)[2] IN SubSeq(parts, 1, Len(parts) - 1)

RegisterPythonOption(i) ==
    LET dists == Get(i, "_dists", <<>>)
    IN  IF FirstPython(dists) # {} /\ Get(i, "register_python", TRUE)
        THEN <<[name |-> "register_python",
                title |-> [text |-> "Register as my default Python",
                           product |-> i["name"],
                           python_version |->
                               PythonVersion(dists[CHOOSE k \in FirstPython(dists) : TRUE])],
                description |-> "Allows other programs to detect the primary Python",
                default |-> Get(i, "register_python_default", FALSE)]>>
        ELSE <<>>

InitializeCondaOption(i) ==
    LET initialize_conda == Get(i, "initialize_conda", "classic")
    IN  IF initialize_conda # ""
        THEN <<[name |-> "initialize_conda",
                title |-> [text |-> "Add installation to my PATH environment variable"],
                description |-> IF initialize_conda = "condabin"
                                THEN "Adds condabin to PATH"
                                ELSE "NOT recommended",
                default |-> Get(i, "initialize_by_default", FALSE)]>>
        ELSE <<>>

\* the default of the clear_package_cache option
ClearPackageCacheDefault(i) == ~Get(i, "keep_pkgs", FALSE)

ClearPackageCacheOption(i) ==
    <<[name |-> "clear_package_cache",
       title |-> [text |-> "Clear the package cache upon completion"],
       description |-> "Recommended",
       default |-> ClearPackageCacheDefault(i)]>>

EnableShortcutsOption(i) ==
    IF Get(i, "_enable_shortcuts", FALSE) = TRUE
    THEN <<[name |-> "enable_shortcuts",
            title |-> [text |-> "Create shortcuts"],
            description |-> "Create shortcuts (supported packages only).",
            default |-> FALSE]>>
    ELSE <<>>

\* mutant: the post-install script is handled first
SCRIPT_TYPES_PostFirst == <<"post", "pre">>

\* the order in which the loop of create_install_options_list takes the types
SCRIPT_TYPES == <<"pre", "post">>

\* whether the description check of one script type raises
DescWithoutScript(script_description, script) ==
    script_description # "" /\ script = <<>>

\* whether the script check of one script type raises
BadScript(f, script) == script # <<>> /\ ~is_bat_file(f, script)

\* mutant: the option is displayed whenever a script is set
ShowsScriptOption_WhenScript(script_description, script) == script # <<>>

\* whether the option of one script type is displayed
ShowsScriptOption(script_description, script) == script_description # ""

\* one turn of the loop: the exception it raises, or the options it appends
ScriptOption(i, f, script_type) ==
    LET script_description == Get(i, script_type \o "_install_desc", "")
        script == Get(i, script_type \o "_install", <<>>)
    IN  IF DescWithoutScript(script_description, script) THEN Raise("ValueError")
        ELSE IF BadScript(f, script) THEN Raise("ValueError")
        ELSE IF ShowsScriptOption(script_description, script)
        THEN Ok(<<[name |-> script_type \o "_install_script",
                   title |-> [text |-> script_type \o "-install script"],
                   description |-> script_description,
                   default |-> FALSE]>>)
        ELSE Ok(<<>>)

create_install_options_list(i, f) ==
    LET first == ScriptOption(i, f, SCRIPT_TYPES[1])
        second == ScriptOption(i, f, SCRIPT_TYPES[2])
    IN  IF first.exc # "none" THEN first
        ELSE IF second.exc # "none" THEN second
        ELSE Ok(RegisterPythonOption(i) \o InitializeCondaOption(i)
                \o ClearPackageCacheOption(i) \o EnableShortcutsOption(i)
                \o first.val \o second.val)

(***************************************************************************)
(* Inputs                                                                  *)
(***************************************************************************)
\* the concatenations of at most n of the given pieces
RECURSIVE Concats(_, _)
Concats(pieces, n) ==
    IF n = 0 THEN {<<>>}
    ELSE LET shorter == Concats(pieces, n - 1)
         IN  shorter \cup {s \o t : s \in shorter, t \in pieces}

EmptyFS == (<<>> :> Dir)

\* an optional field of the Payload: <<>> is None, <<v>> is the value v
Some(v) == <<v>>

NoPayload == [root |-> <<>>, rendered_templates |-> <<>>]

NoEnv == [none |-> TRUE]

(***************************************************************************)
(* get_name_version on its own                                             *)
(***************************************************************************)
MaxVersionPieces == 3

VersionPieces ==
    {<<"1">>, <<"2">>, <<".">>, <<"-">>, <<"!">>, <<"a">>, <<"r", "c">>, <<"R", "C">>,
     <<".", "p", "o", "s", "t">>, <<".", "d", "e", "v">>, <<" ">>, <<"x">>,
     <<"U+0130">>}

ProductNames == {<<>>, <<"A", "p", "p">>}

InitVersion ==
    /\ info \in {[name |-> n, version |-> v] :
                    n \in ProductNames, v \in Concats(VersionPieces, MaxVersionPieces)}
    /\ fs = EmptyFS
    /\ fs0 = EmptyFS
    /\ payload = NoPayload
    /\ pc = "get_name_version"
    /\ ret = None
    /\ env = NoEnv

CallGetNameVersion ==
    /\ pc = "get_name_version"
    /\ ret' = get_name_version(info)
    /\ pc' = "done"
    /\ UNCHANGED <<info, fs, fs0, payload, env>>

NextVersion == CallGetNameVersion

SpecVersion == InitVersion /\ [][NextVersion]_vars

\* the offset in the original string that offset k of its lowered form
\* corresponds to (they differ once a character lowers to two)
OrigOffset(version, k) ==
    CHOOSE j \in 0..Len(version) : Len(Lower(Slice(version, 0, j))) = k

\* C8: for a non-empty name and a version string with at least one match of
\* the pattern (hyphens read as dots), get_name_version returns the last match
\* as the version and the name followed by the trimmed text before and after
\* that match, taken from the original version string; with no match it
\* returns "0.0.1" and "<name> <version>"; the version is never empty.
C8_LastMatchAndSurroundingText ==
    (pc = "done" /\ ret.exc = "none") =>
        LET version == info["version"]
            canon == Replace(Lower(version), "-", ".")
            spans == FindIter(canon, 0)
            last == spans[Len(spans)]
            before == Slice(version, 0, OrigOffset(version, last[1]))
            after == Slice(version, OrigOffset(version, last[2]), Len(version))
        IN  /\ ret.val.version # <<>>
            /\ spans = <<>> =>
                  /\ ret.val.version = DEFAULT_VERSION
                  /\ ret.val.name = info["name"] \o <<" ">> \o version
            /\ spans # <<>> =>
                  /\ ret.val.version = Slice(canon, last[1], last[2])
                  /\ ret.val.name =
                        JoinNonEmpty(<<info["name"], Strip(before, STRIP_CHARS),
                                       Strip(after, STRIP_CHARS)>>)

(***************************************************************************)
(* get_bundle_app_name on its own                                          *)
(***************************************************************************)
MaxIdLen == 4

IdChars == {<<"a">>, <<"B">>, <<"1">>, <<".">>, <<"-">>, <<"_">>, <<" ">>, <<"U+0130">>}

\* info without reverse_domain_identifier and name s, or info whose
\* reverse_domain_identifier is s
InitBundle ==
    /\ info \in {[info |-> [name |-> s], name |-> s] :
                    s \in Concats(IdChars, MaxIdLen)}
            \cup {[info |-> [name |-> <<"x">>, reverse_domain_identifier |-> s],
                   name |-> <<"x">>] : s \in Concats(IdChars, MaxIdLen)}
    /\ fs = EmptyFS
    /\ fs0 = EmptyFS
    /\ payload = NoPayload
    /\ pc = "get_bundle_app_name"
    /\ ret = None
    /\ env = NoEnv

CallGetBundleAppName ==
    /\ pc = "get_bundle_app_name"
    /\ ret' = get_bundle_app_name(info.info, info.name)
    /\ pc' = "done"
    /\ UNCHANGED <<info, fs, fs0, payload, env>>

NextBundle == CallGetBundleAppName

SpecBundle == InitBundle /\ [][NextBundle]_vars

\* lowercase alphanumeric segments joined by single hyphens, non-empty
IsLowerHyphenToken(s) ==
    /\ s # <<>>
    /\ \A k \in 1..Len(s) : IsLowerAlnum(s[k]) \/ s[k] = "-"
    /\ s[1] # "-"
    /\ s[Len(s)] # "-"
    /\ \A k \in 1..(Len(s) - 1) : ~(s[k] = "-" /\ s[k + 1] = "-")

\* C9 as stated: whenever get_bundle_app_name returns, app_name is non-empty
\* and made only of lowercase alphanumeric segments joined by single hyphens.
C9_AppNameIsLowerHyphenToken ==
    (pc = "done" /\ ret.exc = "none") => IsLowerHyphenToken(ret.val.app_name)

\* an ASCII letter or digit, or a character [A-Z0-9] accepts when case is ignored
IsWordChar(c) ==
    \/ IsLowerAlnum(c)
    \/ c \in {"A", "B", "C", "D", "E", "F", "G", "H", "I", "J", "K", "L", "M",
              "N", "O", "P", "Q", "R", "S", "T", "U", "V", "W", "X", "Y", "Z"}
    \/ c = "U+0130"

\* C9 amended: whenever get_bundle_app_name returns, app_name is non-empty,
\* begins and ends with a character that [A-Z0-9] accepts when case is ignored,
\* and holds besides such characters only "_" and "-" (no dot, no space); it is
\* a lowercase token of alphanumeric segments joined by single hyphens when
\* reverse_domain_identifier is absent or its last component is not such a name.
C9_AppNameIsPackageName ==
    (pc = "done" /\ ret.exc = "none") =>
        LET app_name == ret.val.app_name
            rdi == Get(info.info, "reverse_domain_identifier", <<>>)
        IN  /\ app_name # <<>>
            /\ IsWordChar(app_name[1])
            /\ IsWordChar(app_name[Len(app_name)])
            /\ \A k \in 1..Len(app_name) :
                   IsWordChar(app_name[k]) \/ app_name[k] \in {"_", "-"}
            /\ \/ IsLowerHyphenToken(app_name)
               \/ /\ "reverse_domain_identifier" \in DOMAIN info.info
                  /\ app_name = Slice(rdi, Len(rdi) - Len(app_name), Len(rdi))
                  /\ At(rdi, Len(rdi) - Len(app_name) - 1) = "."

\* a reverse_domain_identifier whose last component was sanitised
C9_Witness ==
    /\ pc = "done"
    /\ ret.exc = "none"
    /\ "reverse_domain_identifier" \in DOMAIN info.info
    /\ LET rdi == info.info["reverse_domain_identifier"]
       IN  ret.val.app_name # Slice(rdi, LastDot(rdi) + 1, Len(rdi))

(***************************************************************************)
(* create_install_options_list on its own                                  *)
(***************************************************************************)
\* a mapping without key k, or with k set to one of vals
Optional(k, vals) == {<<>>} \cup {k :> v : v \in vals}

\* the script files of the run: two .bat files, a shell script, and a directory
\* whose name ends in .bat; <<"missing.bat">> does not exist
ScriptsFS ==
    (<<>> :> Dir) @@ (<<"pre.bat">> :> Text("pre")) @@ (<<"hook.BAT">> :> Text("hook"))
    @@ (<<"hook.sh">> :> Text("sh")) @@ (<<"dir.bat">> :> Dir)

OptionInfos ==
    {[name |-> <<"A", "p", "p">>] @@ d @@ r @@ c @@ k @@ e @@ a @@ b @@ x @@ y :
        d \in Optional("_dists", {<<"numpy-1.0-0", "python-3.9.1-0">>,
                                  <<"pythonnet-3.0-0", "python-dateutil-2.8-0">>,
                                  <<"numpy-1.0-0">>}),
        r \in Optional("register_python", {FALSE}),
        c \in Optional("initialize_conda", {"classic", "condabin", ""}),
        k \in Optional("keep_pkgs", BOOLEAN),
        e \in Optional("_enable_shortcuts", BOOLEAN),
        a \in Optional("pre_install_desc", {"", "Runs before"}),
        b \in Optional("pre_install", {<<>>, <<"pre.bat">>, <<"hook.sh">>, <<"missing.bat">>}),
        x \in Optional("post_install_desc", {"Runs after"}),
        y \in Optional("post_install", {<<"hook.BAT">>, <<"dir.bat">>})}

InitOptions ==
    /\ info \in OptionInfos
    /\ fs = ScriptsFS
    /\ fs0 = ScriptsFS
    /\ payload = NoPayload
    /\ pc = "create_install_options_list"
    /\ ret = None
    /\ env = NoEnv

CallCreateInstallOptionsList ==
    /\ pc = "create_install_options_list"
    /\ ret' = create_install_options_list(info, fs)
    /\ pc' = "done"
    /\ UNCHANGED <<info, fs, fs0, payload, env>>

NextOptions == CallCreateInstallOptionsList

SpecOptions == InitOptions /\ [][NextOptions]_vars

OPTION_PRIORITY ==
    <<"register_python", "initialize_conda", "clear_package_cache", "enable_shortcuts",
      "pre_install_script", "post_install_script">>

\* the names of the returned options, in order
OptionNames == [k \in 1..Len(ret.val) |-> ret.val[k].name]

Rank(name) == CHOOSE k \in 1..Len(OPTION_PRIORITY) : OPTION_PRIORITY[k] = name

\* C6: whenever create_install_options_list returns, the option names follow
\* the fixed priority order (register_python, initialize_conda,
\* clear_package_cache, enable_shortcuts, pre_install_script,
\* post_install_script) without repetition, and clear_package_cache is among
\* them with default = not keep_pkgs (keep_pkgs defaulting to false).
C6_OptionsFollowPriorityOrder ==
    (pc = "done" /\ ret.exc = "none") =>
        /\ \A k \in 1..Len(ret.val) :
               \E r \in 1..Len(OPTION_PRIORITY) : OPTION_PRIORITY[r] = ret.val[k].name
        /\ \A j, k \in 1..Len(ret.val) :
               j < k => Rank(ret.val[j].name) < Rank(ret.val[k].name)
        /\ \E k \in 1..Len(ret.val) :
               /\ ret.val[k].name = "clear_package_cache"
               /\ ret.val[k].default =
                      (IF "keep_pkgs" \in DOMAIN info THEN ~info["keep_pkgs"] ELSE TRUE)

\* all six options are returned
C6_Witness ==
    /\ pc = "done"
    /\ ret.exc = "none"
    /\ OptionNames = OPTION_PRIORITY

\* an existing file whose extension is .bat in any case
ExistingBat(p) ==
    /\ p \in DOMAIN fs
    /\ fs[p].kind = "file"
    /\ BaseName(p) \in {"pre.bat", "post.bat", "hook.BAT"}

\* C7: for pre and post alike, create_install_options_list raises ValueError
\* when a description is given without a script path, and when a script path
\* is given that is not an existing .bat file (description or not); when it
\* returns, the <type>_install_script option is listed exactly when a
\* description is given.
C7_ScriptOptions ==
    pc = "done" =>
        \A t \in {"pre", "post"} :
            LET desc == Get(info, t \o "_install_desc", "")
                script == Get(info, t \o "_install", <<>>)
            IN  /\ (desc # "" /\ script = <<>>) => ret.exc = "ValueError"
                /\ (script # <<>> /\ ~ExistingBat(script)) => ret.exc = "ValueError"
                /\ ret.exc = "none" =>
                       ((\E k \in 1..Len(ret.val) :
                            ret.val[k].name = t \o "_install_script") <=> desc # "")

\* a valid pre-install script without a description (not listed) beside a
\* described post-install script (listed)
C7_Witness ==
    /\ pc = "done"
    /\ ret.exc = "none"
    /\ Get(info, "pre_install", <<>>) = <<"pre.bat">>
    /\ Get(info, "pre_install_desc", "") = ""
    /\ Get(info, "post_install_desc", "") # ""
    /\ \E k \in 1..Len(ret.val) : ret.val[k].name = "post_install_script"
    /\ \A k \in 1..Len(ret.val) : ret.val[k].name # "pre_install_script"

(***************************************************************************)
(* Payload layout manager                                                  *)
(***************************************************************************)
EXTERNAL_PACKAGE_PATH == "external"

\* a step on the filesystem: the filesystem it leaves and what it raised
Done(f) == [fs |-> f, exc |-> "none"]

Failed(f, e) == [fs |-> f, exc |-> e]

\* mutant: Path.mkdir(exist_ok=True), which accepts an existing directory
Mkdir_ExistOk(f, p) ==
    IF IsDir(f, p) THEN Done(f)
    ELSE IF Exists(f, p) THEN Failed(f, "FileExistsError")
    ELSE IF ~Exists(f, Parent(p)) THEN Failed(f, "FileNotFoundError")
    ELSE IF ~IsDir(f, Parent(p)) THEN Failed(f, "NotADirectoryError")
    ELSE Done(Put(f, p, Dir))

\* Path.mkdir()
Mkdir(f, p) ==
    IF Exists(f, p) THEN Failed(f, "FileExistsError")
    ELSE IF ~Exists(f, Parent(p)) THEN Failed(f, "FileNotFoundError")
    ELSE IF ~IsDir(f, Parent(p)) THEN Failed(f, "NotADirectoryError")
    ELSE Done(Put(f, p, Dir))

\* Path.mkdir(parents=True, exist_ok=True)
RECURSIVE MkdirParents(_, _)
MkdirParents(f, p) ==
    IF IsDir(f, p) THEN Done(f)
    ELSE IF Exists(f, p) THEN Failed(f, "FileExistsError")
    ELSE IF p = <<>> THEN Failed(f, "FileNotFoundError")
    ELSE LET up == MkdirParents(f, Parent(p))
         IN  IF up.exc = "FileExistsError" THEN Failed(up.fs, "NotADirectoryError")
             ELSE IF up.exc # "none" THEN up
             ELSE Done(Put(up.fs, p, Dir))

PayloadLayout(root) ==
    [root |-> root,
     external |-> Append(root, EXTERNAL_PACKAGE_PATH),
     base |-> Append(Append(root, EXTERNAL_PACKAGE_PATH), "base"),
     pkgs |-> Append(Append(Append(root, EXTERNAL_PACKAGE_PATH), "base"), "pkgs")]

\* mutant: every directory of the layout is made with exist_ok=True
create_layout_ExistOk(f, root) ==
    LET layout == PayloadLayout(root)
        pkgs_dir == MkdirParents(f, layout.pkgs)
    IN  IF pkgs_dir.exc # "none" THEN pkgs_dir
        ELSE [fs |-> pkgs_dir.fs, exc |-> "none", val |-> layout]

\* Payload._create_layout: the filesystem it leaves, what it raised, and the
\* layout it returned
create_layout(f, root) ==
    LET layout == PayloadLayout(root)
        external_dir == MkdirParents(f, layout.external)
        base_dir == Mkdir(external_dir.fs, layout.base)
        pkgs_dir == Mkdir(base_dir.fs, layout.pkgs)
    IN  IF external_dir.exc # "none" THEN external_dir
        ELSE IF base_dir.exc # "none" THEN base_dir
        ELSE IF pkgs_dir.exc # "none" THEN pkgs_dir
        ELSE [fs |-> pkgs_dir.fs, exc |-> "none", val |-> layout]

(***************************************************************************)
(* _create_layout on its own, called up to twice on the same root          *)
(***************************************************************************)
MaxLayoutCalls == 2

LayoutRoot == <<"root">>

\* every node but the top has a directory as its parent
WellFormed(f) ==
    /\ IsDir(f, <<>>)
    /\ \A p \in DOMAIN f : p # <<>> => IsDir(f, Parent(p))

\* what may be on disk before the call: root, the layout directories (as
\* directories or as files) and files of an earlier build
LayoutPaths ==
    LET l == PayloadLayout(LayoutRoot)
    IN  {l.root, l.external, l.base, l.pkgs, Append(l.root, "pyproject.toml"),
         Append(l.external, "_conda.exe"), Append(l.pkgs, "numpy-1.0-0.conda")}

LayoutFilesystems ==
    {f \in UNION {[ps \cup {<<>>} -> {Dir, Text("old")}] : ps \in SUBSET LayoutPaths} :
        WellFormed(f)}

InitLayout ==
    /\ info = [root |-> LayoutRoot]
    /\ fs \in LayoutFilesystems
    /\ fs0 = fs
    /\ payload = NoPayload
    /\ pc = 0
    /\ ret = None
    /\ env = NoEnv

\* one call of _create_layout; pc counts the calls made
CallCreateLayout ==
    /\ pc < MaxLayoutCalls
    /\ LET r == create_layout(fs, info.root)
       IN  /\ fs' = r.fs
           /\ ret' = IF r.exc = "none" THEN Ok(r.val) ELSE Raise(r.exc)
    /\ pc' = pc + 1
    /\ UNCHANGED <<info, fs0, payload, env>>

NextLayout == CallCreateLayout

SpecLayout == InitLayout /\ [][NextLayout]_vars

\* C5: a call of create_layout that directly follows a successful one raises
\* FileExistsError; every call raises FileExistsError when root/external/base
\* or root/external/base/pkgs exists beforehand, succeeds when root/external
\* is already a directory and base is absent, and on success leaves
\* root/external, base and pkgs as directories (base and pkgs new, pkgs
\* empty, nothing else touched) and returns exactly these paths.
C5_LayoutNotIdempotent ==
    [][LET l == PayloadLayout(info.root)
       IN  /\ (ret # None /\ ret.exc = "none") => ret'.exc = "FileExistsError"
           /\ (Exists(fs, l.base) \/ Exists(fs, l.pkgs)) => ret'.exc = "FileExistsError"
           /\ (IsDir(fs, l.external) /\ ~Exists(fs, l.base)) => ret'.exc = "none"
           /\ ret'.exc = "none" =>
                 /\ ret'.val = [root |-> info.root,
                                external |-> info.root \o <<"external">>,
                                base |-> info.root \o <<"external", "base">>,
                                pkgs |-> info.root \o <<"external", "base", "pkgs">>]
                 /\ ~Exists(fs, l.base)
                 /\ \A d \in {l.external, l.base, l.pkgs} : IsDir(fs', d)
                 /\ \A p \in DOMAIN fs' : p # l.pkgs => ~IsPrefix(l.pkgs, p)
                 /\ \A p \in DOMAIN fs : p \in DOMAIN fs' /\ fs'[p] = fs[p]
                 /\ DOMAIN fs' \ DOMAIN fs \subseteq {l.root, l.external, l.base, l.pkgs}
      ]_vars

\* the second of two calls failed after the first had created the layout in a
\* root that already held root/external
C5_Witness ==
    /\ pc = 2
    /\ ret.exc = "FileExistsError"
    /\ IsDir(fs0, <<"root", "external">>)
    /\ ~Exists(fs0, <<"root", "external", "base">>)
    /\ IsDir(fs, <<"root", "external", "base", "pkgs">>)

(***************************************************************************)
(* Archiving: make_tar_gz and _convert_into_archive                        *)
(***************************************************************************)
ARCHIVE_NAME == "payload.tar.gz"

\* p relative to the directory src that holds it, under the name top
Rebase(p, src, top) == <<top>> \o SubSeq(p, Len(src) + 1, Len(p))

\* mutant: tar.add(src, arcname=src.name, recursive=False)
TarMembers_NotRecursive(f, src, archive_path) ==
    [rel \in {<<BaseName(src)>>} |-> f[src]]

\* tar.add(src, arcname=src.name): src and everything below it, named from
\* src.name on; tarfile skips the archive it is writing
TarMembers(f, src, archive_path) ==
    LET added == {q \in DOMAIN f : IsPrefix(src, q) /\ q # archive_path}
    IN  [rel \in {Rebase(q, src, BaseName(src)) : q \in added} |->
            f[CHOOSE q \in added : Rebase(q, src, BaseName(src)) = rel]]

\* tarfile.extractall(into) on an empty directory into: the tree it writes
Extract(members, into) ==
    [p \in {into \o rel : rel \in DOMAIN members} |->
        members[SubSeq(p, Len(into) + 1, Len(p))]]

\* the tree below (and with) directory src, as it would be found extracted
\* under into
TreeAt(f, src, into) ==
    [p \in {into \o Rebase(q, src, BaseName(src)) : q \in {r \in DOMAIN f : IsPrefix(src, r)}} |->
        f[src \o SubSeq(p, Len(into) + 2, Len(p))]]

\* Payload.make_tar_gz: the filesystem it leaves, what it raised and the
\* path it returned.  tarfile.open(mode="w:gz") creates or truncates the
\* archive file before anything is added, and fails on a directory
\* (IsADirectoryError, PermissionError on Windows: an OSError).
make_tar_gz(f, src, dst) ==
    LET archive_path == Append(dst, ARCHIVE_NAME)
        opened == Put(f, archive_path, File([members |-> <<>>]))
    IN  IF ~IsDir(f, src) THEN Failed(f, "NotADirectoryError")
        ELSE IF ~IsDir(f, dst) THEN Failed(f, "NotADirectoryError")
        ELSE IF IsDir(f, archive_path) THEN Failed(f, "OSError")
        ELSE [fs |-> Put(f, archive_path,
                         File([members |-> TarMembers(opened, src, archive_path)])),
              exc |-> "none", val |-> archive_path]

\* mutant: the source directory is kept after the archive is made
RemoveAfterArchive_KeepsSource(f, src, archive_path) ==
    IF ~Exists(f, archive_path) THEN Failed(f, "RuntimeError")
    ELSE [fs |-> f, exc |-> "none", val |-> archive_path]

\* the rest of Payload._convert_into_archive, after make_tar_gz returned
\* archive_path
RemoveAfterArchive(f, src, archive_path) ==
    IF ~Exists(f, archive_path) THEN Failed(f, "RuntimeError")
    ELSE [fs |-> Without(f, src), exc |-> "none", val |-> archive_path]

convert_into_archive(f, src, dst) ==
    LET made == make_tar_gz(f, src, dst)
    IN  IF made.exc # "none" THEN made
        ELSE RemoveAfterArchive(made.fs, src, made.val)

(***************************************************************************)
(* _convert_into_archive on its own, for directories in any position       *)
(***************************************************************************)
TarPaths ==
    {<<"a">>, <<"a", "b">>, <<"a", "f">>, <<"a", "b", "g">>, <<"a", ARCHIVE_NAME>>,
     <<"c">>, <<"c", ARCHIVE_NAME>>}

TarFilesystems ==
    {f \in UNION {[ps \cup {<<>>} -> {Dir, Text("data")}] : ps \in SUBSET TarPaths} :
        WellFormed(f)}

InitTar ==
    /\ info \in [src : TarPaths, dst : TarPaths \cup {<<>>}]
    /\ fs \in TarFilesystems
    /\ fs0 = fs
    /\ payload = NoPayload
    /\ pc = "make_tar_gz"
    /\ ret = None
    /\ env = NoEnv

\* line 294: archive_path = self.make_tar_gz(src, dst)
CallMakeTarGz ==
    /\ pc = "make_tar_gz"
    /\ LET r == make_tar_gz(fs, info.src, info.dst)
       IN  /\ fs' = r.fs
           /\ ret' = IF r.exc = "none" THEN Ok(r.val) ELSE Raise(r.exc)
           /\ pc' = IF r.exc = "none" THEN "rmtree" ELSE "done"
    /\ UNCHANGED <<info, fs0, payload, env>>

\* lines 296-300: the existence check, shutil.rmtree(src) and the return
RemoveSource ==
    /\ pc = "rmtree"
    /\ LET r == RemoveAfterArchive(fs, info.src, ret.val)
       IN  /\ fs' = r.fs
           /\ ret' = IF r.exc = "none" THEN Ok(r.val) ELSE Raise(r.exc)
    /\ pc' = "done"
    /\ UNCHANGED <<info, fs0, payload, env>>

NextTar == CallMakeTarGz \/ RemoveSource

SpecTar == InitTar /\ [][NextTar]_vars

\* the archive at path p extracts to the tree src had when the call began
RoundTrips(p, src) ==
    /\ IsFile(fs, p)
    /\ "members" \in DOMAIN fs[p].data
    /\ Extract(fs[p].data.members, <<"x">>) = TreeAt(fs0, src, <<"x">>)

\* C4 as stated: for existing directories src and dst in any position the
\* archive operation returns, the archive is at dst/archive_name and extracts
\* to src's tree under src's name, and src is gone; otherwise it raises
\* NotADirectoryError and changes nothing.
C4_ArchiveAnyPosition ==
    pc = "done" =>
        IF IsDir(fs0, info.src) /\ IsDir(fs0, info.dst)
        THEN /\ ret.exc = "none"
             /\ RoundTrips(Append(info.dst, ARCHIVE_NAME), info.src)
             /\ ~Exists(fs, info.src)
        ELSE /\ ret.exc = "NotADirectoryError"
             /\ fs = fs0

\* C4 amended: for existing directories src and dst, where dst is neither src
\* nor inside src and dst/archive_name is not a directory, the operation
\* returns dst/archive_name, the archive there extracts to src's tree under
\* src's name, src is gone and nothing else changed; when dst is src or lies
\* inside src (and dst/archive_name is not a directory) it returns as well,
\* but the archive has been deleted together with src; when dst/archive_name
\* is a directory it raises an OSError and changes nothing; when src or dst is
\* not an existing directory it raises NotADirectoryError and changes nothing.
C4_ArchiveOutsideSource ==
    pc = "done" =>
        LET src == info.src
            dst == info.dst
            archive_path == Append(dst, ARCHIVE_NAME)
        IN  IF ~(IsDir(fs0, src) /\ IsDir(fs0, dst))
            THEN ret.exc = "NotADirectoryError" /\ fs = fs0
            ELSE IF IsDir(fs0, archive_path)
            THEN ret.exc = "OSError" /\ fs = fs0
            ELSE /\ ret = Ok(archive_path)
                 /\ \A p \in DOMAIN fs : ~IsPrefix(src, p)
                 /\ \A p \in DOMAIN fs0 :
                        (~IsPrefix(src, p) /\ p # archive_path) =>
                            (p \in DOMAIN fs /\ fs[p] = fs0[p])
                 /\ IF IsPrefix(src, dst)
                    THEN DOMAIN fs \subseteq DOMAIN fs0
                    ELSE /\ RoundTrips(archive_path, src)
                         /\ DOMAIN fs \ DOMAIN fs0 \subseteq {archive_path}

\* dst is the parent of a src that holds a subdirectory and files, and an old
\* archive was replaced
C4_Witness ==
    /\ pc = "done"
    /\ ret.exc = "none"
    /\ info.src = <<"a">>
    /\ info.dst = <<>>
    /\ IsFile(fs0, <<"a", "b", "g">>)
    /\ IsFile(fs0, <<"a", ARCHIVE_NAME>>)
    /\ RoundTrips(<<ARCHIVE_NAME>>, <<"a">>)

(***************************************************************************)
(* Template renderer                                                       *)
(***************************************************************************)
BRIEFCASE_DIR == <<"briefcase">>

CONDA_EXE_NAME == "_conda.exe"

TemplateFile(name, src, dst) == [name |-> name, src |-> src, dst |-> dst]

\* the templates of Payload.render_templates, in the order of the list
Templates(root) ==
    <<TemplateFile("post_install_script", Append(BRIEFCASE_DIR, "run_installation.bat"),
                   Append(root, "run_installation.bat")),
      TemplateFile("pre_uninstall_script", Append(BRIEFCASE_DIR, "pre_uninstall.bat"),
                   Append(root, "pre_uninstall.bat"))>>

\* render_template(text, **context), written with the line ending
Rendered(text, context, line_ending) ==
    File([text |-> text, context |-> context, newline |-> line_ending])

\* one turn of the loop of render_template_files
RenderOne(f, t, context, line_ending) ==
    IF ~Exists(f, t.src) THEN Failed(f, "FileNotFoundError")
    ELSE IF ~IsFile(f, t.src) THEN Failed(f, "OSError")
    ELSE LET made == MkdirParents(f, Parent(t.dst))
         IN  IF made.exc # "none" THEN made
             ELSE IF IsDir(made.fs, t.dst) THEN Failed(made.fs, "OSError")
             ELSE Done(Put(made.fs, t.dst, Rendered(f[t.src].data, context, line_ending)))

RECURSIVE render_template_files(_, _, _, _)
render_template_files(f, files, context, line_ending) ==
    IF files = <<>> THEN Done(f)
    ELSE LET one == RenderOne(f, Head(files), context, line_ending)
         IN  IF one.exc # "none" THEN one
             ELSE render_template_files(one.fs, Tail(files), context, line_ending)

\* Payload.render_templates with self.root set: the filesystem, the exception
\* and the new value of self.rendered_templates (left as it was when
\* render_template_files raises: line 324 is not reached)
render_templates(f, pl) ==
    LET templates == Templates(pl.root[1])
        context == [archive_name |-> ARCHIVE_NAME, conda_exe_name |-> CONDA_EXE_NAME]
        r == render_template_files(f, templates, context, "\r\n")
    IN  IF r.exc # "none"
        THEN [fs |-> r.fs, exc |-> r.exc,
              rendered |-> pl.rendered_templates]
        ELSE [fs |-> r.fs, exc |-> "none", rendered |-> Some(templates)]

(***************************************************************************)
(* Manifest builder                                                        *)
(***************************************************************************)
PLACEHOLDER_LICENSE == <<"nsis", "placeholder_license.txt">>

get_license(i) ==
    IF "license_file" \in DOMAIN i THEN [file |-> i["license_file"]]
    ELSE [file |-> PLACEHOLDER_LICENSE]

\* lines 331-346 of write_pyproject_toml: config, from the results of the
\* calls it makes
Config(i, layout, nv, ba, options) ==
    [project_name |-> nv.name,
     bundle |-> ba.bundle,
     version |-> nv.version,
     license |-> get_license(i),
     app_name |-> ba.app_name,
     app |-> [formal_name |-> i["name"] \o <<" ">> \o i["version"],
              description |-> "",
              external_package_path |-> layout.external,
              use_full_install_path |-> FALSE,
              install_launcher |-> FALSE,
              install_option |-> options]]

\* line 329 and line 343: get_bundle_app_name, then create_install_options_list
WithBundle(i, f, layout, nv, ba) ==
    IF ba.exc # "none" THEN ba
    ELSE IF create_install_options_list(i, f).exc # "none" THEN Raise("ValueError")
    ELSE Ok(Config(i, layout, nv, ba.val, create_install_options_list(i, f).val))

\* line 328: get_name_version
WithNameVersion(i, f, layout, nv) ==
    IF nv.exc # "none" THEN nv
    ELSE WithBundle(i, f, layout, nv.val, get_bundle_app_name(i, nv.val.name))

\* lines 328-346 of write_pyproject_toml: the exception raised, or config
BuildConfig(i, f, layout) == WithNameVersion(i, f, layout, get_name_version(i))

\* lines 349-356: the template paths and the author are added and the
\* manifest is written to root/pyproject.toml
Manifest(i, config, rendered) ==
    File([toml |-> config,
          templates |-> [k \in 1..Len(rendered) |->
                            [key |-> rendered[k].name, value |-> rendered[k].dst]],
          author |-> IF "company" \in DOMAIN i THEN <<i["company"]>> ELSE <<>>])

(***************************************************************************)
(* Content staging (preconda and utils are not part of the sources at      *)
(* hand: their effect is taken from the design description)                *)
(***************************************************************************)
\* preconda.write_files(info, base): the conda metadata files under base
write_files(f, i, base) ==
    IF ~IsDir(f, base) THEN Failed(f, "FileNotFoundError")
    ELSE Done(Put(f, Append(base, "conda-meta"), Dir))

\* preconda.copy_extra_files(extra_files, external)
RECURSIVE copy_extra_files(_, _, _)
copy_extra_files(f, extra_files, external) ==
    IF extra_files = <<>> THEN Done(f)
    ELSE IF ~IsFile(f, Head(extra_files)) THEN Failed(f, "FileNotFoundError")
    ELSE copy_extra_files(
             Put(f, Append(external, BaseName(Head(extra_files))), f[Head(extra_files)]),
             Tail(extra_files), external)

\* utils.filename_dist(dist): the file name of a distribution in _download_dir
filename_dist(dist) == dist \o ".conda"

\* shutil.copy(src, dst_dir)
Copy(f, src, dst_dir) ==
    IF ~Exists(f, src) THEN Failed(f, "FileNotFoundError")
    ELSE IF ~IsFile(f, src) THEN Failed(f, "OSError")
    ELSE IF IsDir(f, dst_dir) THEN Done(Put(f, Append(dst_dir, BaseName(src)), f[src]))
    ELSE IF ~IsDir(f, Parent(dst_dir)) THEN Failed(f, "FileNotFoundError")
    ELSE Done(Put(f, dst_dir, f[src]))

\* Payload._stage_dists
RECURSIVE stage_dists(_, _, _, _)
stage_dists(f, download_dir, dists, pkgs) ==
    IF dists = <<>> THEN Done(f)
    ELSE LET one == Copy(f, Append(download_dir, filename_dist(Head(dists))), pkgs)
         IN  IF one.exc # "none" THEN one
             ELSE stage_dists(one.fs, download_dir, Tail(dists), pkgs)

\* utils.copy_conda_exe(external, conda_exe_name, conda_exe)
copy_conda_exe(f, external, conda_exe_name, conda_exe) ==
    IF ~IsFile(f, conda_exe) THEN Failed(f, "FileNotFoundError")
    ELSE Done(Put(f, Append(external, conda_exe_name), f[conda_exe]))

\* lines 254-257 of prepare
StageAll(f, i, layout) ==
    LET a == write_files(f, i, layout.base)
        b == copy_extra_files(a.fs, Get(i, "extra_files", <<>>), layout.external)
        c == stage_dists(b.fs, i["_download_dir"], i["_dists"], layout.pkgs)
        d == copy_conda_exe(c.fs, layout.external, CONDA_EXE_NAME, i["_conda_exe"])
    IN  IF a.exc # "none" THEN a
        ELSE IF b.exc # "none" THEN b
        ELSE IF c.exc # "none" THEN c
        ELSE d

(***************************************************************************)
(* Build driver                                                            *)
(***************************************************************************)
MaxMsi == 2

MaxPrepares == 2

\* tempfile.mkdtemp(): a new directory
TMP_ROOT == <<"tmp">>

\* Path(sysconfig.get_path("scripts")) / "briefcase.exe"
BRIEFCASE_EXE == <<"Scripts", "briefcase.exe">>

MSI_NAMES == <<"App-1.msi", "App-2.msi", "App-3.msi", "App-4.msi">>

\* dist_dir.glob("*.msi")
Glob(f, dist_dir) ==
    {p \in DOMAIN f :
        /\ p # <<>>
        /\ Parent(p) = dist_dir
        /\ \E k \in 1..Len(MSI_NAMES) : BaseName(p) = MSI_NAMES[k]}

\* what `briefcase package` leaves under the payload root when it builds n
\* installers
ToolOutput(f, root, n) ==
    LET dist == Append(root, "dist")
        made == [p \in {Append(root, "build"), dist, Append(dist, "App.wixpdb")}
                       \cup {Append(dist, MSI_NAMES[k]) : k \in 1..n} |->
                    IF p \in {Append(root, "build"), dist} THEN Dir
                    ELSE IF p = Append(dist, "App.wixpdb") THEN Text("wixpdb")
                    ELSE File([msi |-> BaseName(p)])]
    IN  [p \in DOMAIN f \cup DOMAIN made |-> IF p \in DOMAIN made THEN made[p] ELSE f[p]]

\* mutant: the old output is removed before the installers are counted
relocate_UnlinkFirst(f, root, outpath) ==
    LET msi_paths == Glob(f, Append(root, "dist"))
        msi == CHOOSE p \in msi_paths : TRUE
        unlinked == Without(f, outpath)
    IN  IF IsDir(f, outpath) THEN Failed(f, "OSError")
        ELSE IF Cardinality(msi_paths) # 1 THEN Failed(unlinked, "RuntimeError")
        ELSE IF ~IsDir(unlinked, Parent(outpath)) THEN Failed(unlinked, "FileNotFoundError")
        ELSE Done(Put(Without(unlinked, msi), outpath, f[msi]))

\* lines 411-418 of create: count the installers, remove the old output,
\* move the installer to the output path
relocate(f, root, outpath) ==
    LET msi_paths == Glob(f, Append(root, "dist"))
        msi == CHOOSE p \in msi_paths : TRUE
        unlinked == Without(f, outpath)
    IN  IF Cardinality(msi_paths) # 1 THEN Failed(f, "RuntimeError")
        ELSE IF IsDir(f, outpath) THEN Failed(f, "OSError")
        ELSE IF ~IsDir(unlinked, Parent(outpath)) THEN Failed(unlinked, "FileNotFoundError")
        ELSE Done(Put(Without(unlinked, msi), outpath, f[msi]))

\* mutant: the payload root is removed even in debug mode
ShouldRemove_Always(i) == TRUE

\* line 420: if not info.get("_debug")
ShouldRemove(i) == ~Get(i, "_debug", FALSE)

\* an exception leaves the driver (or prepare) at position where
RaisedAt(e, where) == [exc |-> e, at |-> where]

\* the files around the build: the templates, the installer-builder, the
\* downloaded distribution, the runtime executable, the old output
DriverFilesystems ==
    {(<<>> :> Dir) @@ (BRIEFCASE_DIR :> Dir) @@ (<<"Scripts">> :> Dir) @@ (<<"dl">> :> Dir)
     @@ (<<"conda.exe">> :> Text("conda")) @@ t1 @@ t2 @@ b @@ d @@ o :
        t1 \in Optional(Append(BRIEFCASE_DIR, "run_installation.bat"), {Text("install")}),
        t2 \in Optional(Append(BRIEFCASE_DIR, "pre_uninstall.bat"), {Text("uninstall")}),
        b \in Optional(BRIEFCASE_EXE, {Text("briefcase")}),
        d \in Optional(<<"dl", "numpy-1.0-0.conda">>, {Text("numpy")}),
        o \in {<<>>, (<<"out">> :> Dir), (<<"out">> :> Dir) @@ (<<"out", "App.msi">> :> Dir),
               (<<"out">> :> Dir) @@ (<<"out", "App.msi">> :> File([msi |-> "old"]))}}

DriverInfos ==
    {[name |-> n, version |-> v, _dists |-> <<"numpy-1.0-0">>, _download_dir |-> <<"dl">>,
      _conda_exe |-> <<"conda.exe">>, _outpath |-> <<"out", "App.msi">>] @@ g :
        n \in ProductNames,
        v \in {<<"1", ".", "2", ".", "3">>, <<"x">>},
        g \in Optional("_debug", BOOLEAN)}

Init ==
    /\ info \in DriverInfos
    /\ fs \in DriverFilesystems
    /\ fs0 = fs
    /\ payload = NoPayload
    /\ pc = "start"
    /\ ret = None
    /\ env \in [caller : {"create", "prepare"}, is_windows : BOOLEAN,
                as_archive : {TRUE}, calls : {0}, before : {<<>>}]

\* lines 392-396 of create: the platform check, Payload(info) and the call
\* of prepare()
Create ==
    /\ pc = "start"
    /\ env.caller = "create"
    /\ IF env.is_windows
       THEN pc' = "prepare" /\ ret' = ret /\ env' = [env EXCEPT !.calls = 1]
       ELSE pc' = "raised" /\ ret' = RaisedAt("Exception", "create") /\ env' = env
    /\ UNCHANGED <<info, fs, fs0, payload>>

\* a caller of Payload(info).prepare(as_archive), who may call it again;
\* env.before keeps the as_archive of the calls that returned before this one
CallPrepare ==
    /\ pc \in {"start", "prepared"}
    /\ env.caller = "prepare"
    /\ env.calls < MaxPrepares
    /\ \E as_archive \in BOOLEAN :
           env' = [env EXCEPT !.as_archive = as_archive, !.calls = @ + 1,
                              !.before = IF env.calls = 0 THEN @
                                         ELSE Append(@, env.as_archive)]
    /\ pc' = "prepare"
    /\ UNCHANGED <<info, fs, fs0, payload, ret>>

\* lines 250-251 of prepare: _ensure_root and _create_layout
EnsureRootCreateLayout ==
    /\ pc = "prepare"
    /\ LET root == IF payload.root = <<>> THEN TMP_ROOT ELSE payload.root[1]
           rooted == IF payload.root = <<>> THEN Put(fs, TMP_ROOT, Dir) ELSE fs
           r == create_layout(rooted, root)
       IN  /\ payload' = [payload EXCEPT !.root = Some(root)]
           /\ fs' = r.fs
           /\ IF r.exc = "none"
              THEN pc' = "build_config" /\ ret' = ret
              ELSE pc' = "raised" /\ ret' = RaisedAt(r.exc, "create_layout")
    /\ UNCHANGED <<info, fs0, env>>

\* lines 328-346 of write_pyproject_toml
BuildConfigStep ==
    /\ pc = "build_config"
    /\ \E r \in {BuildConfig(info, fs, PayloadLayout(payload.root[1]))} :
           IF r.exc = "none"
           THEN pc' = "render_templates" /\ ret' = ret
           ELSE pc' = "raised" /\ ret' = RaisedAt(r.exc, "build_config")
    /\ UNCHANGED <<info, fs, fs0, payload, env>>

\* line 348: self.render_templates()
RenderTemplates ==
    /\ pc = "render_templates"
    /\ LET r == render_templates(fs, payload)
       IN  /\ fs' = r.fs
           /\ payload' = [payload EXCEPT !.rendered_templates = r.rendered]
           /\ IF r.exc = "none"
              THEN pc' = "write_toml" /\ ret' = ret
              ELSE pc' = "raised" /\ ret' = RaisedAt(r.exc, "render_templates")
    /\ UNCHANGED <<info, fs0, env>>

\* lines 349-357: tomli_w is None off Windows (line 20)
WriteToml ==
    /\ pc = "write_toml"
    /\ IF env.is_windows
       THEN /\ fs' = Put(fs, Append(payload.root[1], "pyproject.toml"),
                         Manifest(info,
                                  BuildConfig(info, fs, PayloadLayout(payload.root[1])).val,
                                  payload.rendered_templates[1]))
            /\ pc' = "stage"
            /\ ret' = ret
       ELSE /\ fs' = fs
            /\ pc' = "raised"
            /\ ret' = RaisedAt("AttributeError", "write_toml")
    /\ UNCHANGED <<info, fs0, payload, env>>

\* lines 254-257 of prepare
Stage ==
    /\ pc = "stage"
    /\ LET r == StageAll(fs, info, PayloadLayout(payload.root[1]))
       IN  /\ fs' = r.fs
           /\ IF r.exc = "none"
              THEN pc' = "archive" /\ ret' = ret
              ELSE pc' = "raised" /\ ret' = RaisedAt(r.exc, "stage")
    /\ UNCHANGED <<info, fs0, payload, env>>

\* lines 259-261 of prepare, and the return to the caller
Archive ==
    /\ pc = "archive"
    /\ LET layout == PayloadLayout(payload.root[1])
           r == IF env.as_archive
                THEN convert_into_archive(fs, layout.base, layout.external)
                ELSE Done(fs)
       IN  /\ fs' = r.fs
           /\ IF r.exc # "none"
              THEN pc' = "raised" /\ ret' = RaisedAt(r.exc, "archive")
              ELSE IF env.caller = "create"
              THEN pc' = "find_briefcase" /\ ret' = ret
              ELSE pc' = "prepared" /\ ret' = Ok(layout)
    /\ UNCHANGED <<info, fs0, payload, env>>

\* lines 398-402 of create
FindBriefcase ==
    /\ pc = "find_briefcase"
    /\ IF Exists(fs, BRIEFCASE_EXE)
       THEN pc' = "run" /\ ret' = ret
       ELSE pc' = "raised" /\ ret' = RaisedAt("FileNotFoundError", "find_briefcase")
    /\ UNCHANGED <<info, fs, fs0, payload, env>>

\* lines 405-409 of create: run(..., cwd=root, check=True)
RunBriefcase ==
    /\ pc = "run"
    /\ \E code \in {0, 1}, n \in 0..MaxMsi :
           /\ fs' = ToolOutput(fs, payload.root[1], n)
           /\ IF code = 0
              THEN pc' = "relocate" /\ ret' = ret
              ELSE pc' = "raised" /\ ret' = RaisedAt("CalledProcessError", "run")
    /\ UNCHANGED <<info, fs0, payload, env>>

\* lines 411-418 of create
Relocate ==
    /\ pc = "relocate"
    /\ LET r == relocate(fs, payload.root[1], info["_outpath"])
       IN  /\ fs' = r.fs
           /\ IF r.exc = "none"
              THEN pc' = "cleanup" /\ ret' = ret
              ELSE pc' = "raised" /\ ret' = RaisedAt(r.exc, "relocate")
    /\ UNCHANGED <<info, fs0, payload, env>>

\* lines 420-421 of create, and Payload.remove
Cleanup ==
    /\ pc = "cleanup"
    /\ fs' = IF ShouldRemove(info) THEN Without(fs, payload.root[1]) ELSE fs
    /\ pc' = "done"
    /\ ret' = Ok(None)
    /\ UNCHANGED <<info, fs0, payload, env>>

Next ==
    \/ Create
    \/ CallPrepare
    \/ EnsureRootCreateLayout
    \/ BuildConfigStep
    \/ RenderTemplates
    \/ WriteToml
    \/ Stage
    \/ Archive
    \/ FindBriefcase
    \/ RunBriefcase
    \/ Relocate
    \/ Cleanup

Spec == Init /\ [][Next]_vars

(***************************************************************************)
(* Properties of the build driver and of prepare                           *)
(***************************************************************************)
\* the positions of prepare at which an exception leaves it
PrepareSteps == {"create_layout", "build_config", "render_templates", "write_toml",
                 "stage", "archive"}

Below(f, dir) == {p \in DOMAIN f : IsPrefix(dir, p)}

\* C1: when create returns or raises with the payload root materialized, the
\* root and everything below it is gone if and only if every step succeeded
\* and _debug is falsy; in debug mode and after every failure the root is
\* still there
C1_RootRemovedIffSuccessAndNotDebug ==
    (env.caller = "create" /\ pc \in {"done", "raised"} /\ payload.root # <<>>) =>
        LET root == payload.root[1]
            succeeded == pc = "done" /\ ret.exc = "none"
            debug == Get(info, "_debug", FALSE)
        IN  /\ (Below(fs, root) = {}) <=> (succeeded /\ ~debug)
            /\ ~(succeeded /\ ~debug) => IsDir(fs, root)

\* create returned without _debug and the payload root is gone
C1_Witness ==
    /\ env.caller = "create"
    /\ pc = "done"
    /\ ~Get(info, "_debug", FALSE)
    /\ payload.root = Some(TMP_ROOT)
    /\ ~Exists(fs, TMP_ROOT)
    /\ IsFile(fs, info["_outpath"])

\* C2: after the tool exited with 0, an installer is moved only when dist
\* holds exactly one .msi: the output path then holds that installer in place
\* of any old file and the installer has left dist (a usable output path is
\* always written); with 0 or 2 or more the driver raises RuntimeError and
\* the filesystem, the old output included, is as it was
C2_RelocateExactlyOneArtifact ==
    [][pc = "relocate" =>
          LET msi_paths == Glob(fs, Append(payload.root[1], "dist"))
              outpath == info["_outpath"]
          IN  IF Cardinality(msi_paths) = 1
              THEN \A msi \in msi_paths :
                       /\ pc' = "cleanup" =>
                              /\ IsFile(fs', outpath)
                              /\ fs'[outpath] = fs[msi]
                              /\ ~Exists(fs', msi)
                              /\ Glob(fs', Append(payload.root[1], "dist")) = {}
                       /\ pc' = "raised" => ret'.exc # "RuntimeError"
                       /\ (IsDir(fs, Parent(outpath)) /\ ~IsDir(fs, outpath)) =>
                              pc' = "cleanup"
              ELSE /\ pc' = "raised"
                   /\ ret' = RaisedAt("RuntimeError", "relocate")
                   /\ fs' = fs]_vars

\* the one installer has replaced the old file at the output path
C2_Witness ==
    /\ pc = "cleanup"
    /\ IsFile(fs0, info["_outpath"])
    /\ fs0[info["_outpath"]] = File([msi |-> "old"])
    /\ fs[info["_outpath"]] = File([msi |-> "App-1.msi"])
    /\ ~Exists(fs, <<"tmp", "dist", "App-1.msi">>)

\* a minimal valid ProductInfo in a valid environment: a name, version 1.2.3,
\* the distribution in the download directory, the runtime executable, the
\* templates of the package, the manifest writer (Windows)
MinimalValid ==
    /\ info["name"] = <<"A", "p", "p">>
    /\ info["version"] = <<"1", ".", "2", ".", "3">>
    /\ IsFile(fs0, <<"dl", "numpy-1.0-0.conda">>)
    /\ IsFile(fs0, info["_conda_exe"])
    /\ \A k \in 1..2 : IsFile(fs0, Templates(TMP_ROOT)[k].src)
    /\ env.is_windows

\* C3: for a minimal valid ProductInfo, prepare() with as_archive=True does
\* not raise, and when it has returned the manifest at the payload root
\* records version 1.2.3, the archive holds base/pkgs with the staged
\* distribution file, and external holds the archive and the runtime
\* executable but no base directory
C3_PrepareLeavesManifestAndArchive ==
    (MinimalValid /\ env.as_archive /\ env.calls = 1) =>
        /\ pc = "raised" => ret.at \notin PrepareSteps
        /\ pc \in {"prepared", "find_briefcase"} =>
               LET layout == PayloadLayout(payload.root[1])
                   manifest == Append(layout.root, "pyproject.toml")
                   archive == Append(layout.external, ARCHIVE_NAME)
                   exe == Append(layout.external, CONDA_EXE_NAME)
               IN  /\ IsFile(fs, manifest)
                   /\ fs[manifest].data.toml.version = <<"1", ".", "2", ".", "3">>
                   /\ IsFile(fs, archive)
                   /\ fs[archive].data.members[<<"base", "pkgs">>] = Dir
                   /\ <<"base", "pkgs", "numpy-1.0-0.conda">> \in
                          DOMAIN fs[archive].data.members
                   /\ fs[archive].data.members[<<"base", "pkgs", "numpy-1.0-0.conda">>]
                          = fs0[<<"dl", "numpy-1.0-0.conda">>]
                   /\ IsFile(fs, exe)
                   /\ Below(fs, layout.external) = {layout.external, archive, exe}

\* prepare(as_archive=True) has returned for a minimal valid ProductInfo
C3_Witness ==
    /\ MinimalValid
    /\ env.caller = "prepare"
    /\ env.as_archive
    /\ env.calls = 1
    /\ pc = "prepared"
    /\ IsFile(fs, <<"tmp", "external", "payload.tar.gz">>)
    /\ ~Exists(fs, <<"tmp", "external", "base">>)

\* C10: after the first render_templates of a Payload returned, or raised
\* FileNotFoundError, rendered_templates holds exactly the templates whose
\* destination file the call wrote
C10_RenderedTemplatesAreTheWrittenOnes ==
    (/\ env.calls = 1
     /\ \/ pc = "write_toml"
        \/ pc = "raised" /\ ret = RaisedAt("FileNotFoundError", "render_templates")) =>
        LET templates == Templates(payload.root[1])
            written == {k \in 1..Len(templates) :
                           /\ IsFile(fs, templates[k].dst)
                           /\ ~Exists(fs0, templates[k].dst)}
            recorded == IF payload.rendered_templates = <<>> THEN {}
                        ELSE {k \in 1..Len(templates) :
                                 \E j \in 1..Len(payload.rendered_templates[1]) :
                                     payload.rendered_templates[1][j] = templates[k]}
        IN  recorded = written

\* the as_archive of the prepare() that returned before the running one
Previous == env.before[Len(env.before)]

\* C11: a prepare() that follows a returned prepare() on the same Payload
\* raises FileExistsError in _create_layout, with the root kept and no file
\* touched, if and only if the earlier call ran with as_archive=False; after
\* a call with as_archive=True base is gone, layout creation passes, and the
\* call goes on to write the rendered scripts, the manifest and (with
\* as_archive=True) the archive in the same root, and returns
C11_SecondPrepareFailsIffNotArchived ==
    /\ [][(env.before # <<>> /\ pc # "prepared") =>
             LET layout == PayloadLayout(payload.root[1])
                 manifest == Append(layout.root, "pyproject.toml")
                 archive == Append(layout.external, ARCHIVE_NAME)
                 templates == Templates(layout.root)
             IN  /\ payload'.root = payload.root
                 /\ pc = "prepare" =>
                        /\ IsDir(fs, layout.base) <=> ~Previous
                        /\ pc' = "raised" <=> ~Previous
                        /\ pc' = "raised" =>
                               /\ ret' = RaisedAt("FileExistsError", "create_layout")
                               /\ fs' = fs
                        /\ pc' # "raised" =>
                               /\ pc' = "build_config"
                               /\ IsDir(fs', layout.pkgs)
                               /\ \A p \in DOMAIN fs : p \in DOMAIN fs' /\ fs'[p] = fs[p]
                 /\ pc = "render_templates" =>
                        /\ pc' = "write_toml"
                        /\ \A k \in 1..Len(templates) :
                               /\ IsFile(fs', templates[k].dst)
                               /\ fs'[templates[k].dst].data.text = fs0[templates[k].src].data
                 /\ pc = "write_toml" =>
                        /\ pc' = "stage"
                        /\ IsFile(fs', manifest)
                        /\ fs'[manifest].data.templates =
                               [k \in 1..Len(templates) |->
                                   [key |-> templates[k].name, value |-> templates[k].dst]]
                 /\ pc = "archive" =>
                        /\ pc' = "prepared"
                        /\ env.as_archive =>
                               /\ IsFile(fs', archive)
                               /\ fs'[archive].data.members =
                                      TarMembers(fs, layout.base, archive)
                               /\ ~Exists(fs', layout.base)]_vars
    /\ [](pc = "raised" /\ env.before # <<>> =>
             ret = RaisedAt("FileExistsError", "create_layout") /\ ~Previous)

\* a second prepare(as_archive=True) has returned after a first one
C11_Witness ==
    /\ env.before = <<TRUE>>
    /\ env.as_archive
    /\ pc = "prepared"
    /\ IsFile(fs, <<"tmp", "pyproject.toml">>)
    /\ IsFile(fs, <<"tmp", "external", "payload.tar.gz">>)
    /\ ~Exists(fs, <<"tmp", "external", "base">>)

====
